---- MODULE Spec2Model ----
(***************************************************************************)
(* Overlay subsystem of rviz_attitude_plugin (src/src/overlay_system.cpp): *)
(*   OverlayGeometryManager  anchor-relative placement (pure calculation)  *)
(*   ScopedPixelBuffer       scoped lock/unlock of a hardware pixel buffer *)
(*   OverlayPanel            overlay, panel, material and texture handles  *)
(*   OverlayManager          attach / setGeometry / setVisible / render    *)
(*                                                                         *)
(* Five specifications share the module:                                   *)
(*   SpecGeom      an OverlayGeometryManager whose queries are applied to  *)
(*                 geometries and panel sizes drawn from bounded sets;     *)
(*   SpecLock      a pool of ScopedPixelBuffer objects that are            *)
(*                 constructed, moved, queried and destroyed;              *)
(*   Spec          one OverlayManager driven by its host;                  *)
(*   SpecTeardown  the same OverlayManager up to and including its         *)
(*                 destruction;                                            *)
(*   SpecNames     several OverlayManager objects attached by threads      *)
(*                 that interleave, sharing the static name counter.       *)
(***************************************************************************)
EXTENDS Integers, Sequences, FiniteSets, TLC

VARIABLES
  \* ---- OverlayGeometryManager
  geometry_,      \* Geometry {width, height, offset_x, offset_y, anchor}
  geomResult,     \* the last query applied to geometry_ and what it returned
  \* ---- ScopedPixelBuffer objects
  guardAlive,     \* guardAlive[g]: object g is constructed and not yet destroyed
  guardBuf,       \* guardBuf[g]: buffer_ of object g (NullBuf or a buffer)
  guardRole,      \* guardRole[g]: "fresh", or g's side in the last move that touched
                  \* it: "movedFrom" (the source) or "movedTo" (the destination)
  mapped,         \* mapped[b]: lock() calls on buffer b not yet matched by unlock()
  lockEvent,      \* the last ScopedPixelBuffer operation and what it did
  \* ---- host
  viewSize,       \* render_panel_->size(): pixel size of the host's render panel
  widgetSize,     \* size of the AttitudeWidget handed to render()
  \* ---- OverlayManager
  overlay_count,  \* static std::atomic<int> overlay_count of attach()
  overlay_panel_, \* TRUE when the unique_ptr<OverlayPanel> is non-null
  render_panel_,  \* 0 (nullptr) or the render panel bound by attach()
  \* ---- OverlayPanel
  name_,          \* counter value in the panel's name, -1 while no panel exists
  overlay_,       \* TRUE when the Ogre::Overlay handle is non-null
  panel_,         \* TRUE when the Ogre::PanelOverlayElement handle is non-null
  material_,      \* TRUE when the Ogre::MaterialPtr is non-null
  texture_,       \* Ogre::TexturePtr: [exists, width, height]
  unitStates,     \* texture-unit states of the material's pass
  visible,        \* Ogre::Overlay::isVisible()
  panelPos,       \* position set on the panel element
  panelDims,      \* dimensions set on the panel element
  \* ---- one render() call
  pc,             \* "idle", where render() stands: "locked", "painting", or
                  \* "destroyed" once the OverlayManager is destroyed (the other
                  \* variables then show what it held when it was destroyed)
  buffer,         \* buffer_ of render()'s local ScopedPixelBuffer
  texLocked,      \* lock() calls on the texture's buffer not yet matched by unlock()
  image,          \* render()'s local QImage
  pixels,         \* the mapped memory: "unmapped", "stale", "zero" or "painted"
  \* ---- history
  texCreated,     \* TextureManager::createManual calls so far
  texRemoved,     \* TextureManager::remove calls so far
  lastReq,        \* floored size of the last updateTextureSize request, <<0,0>> if none
  askedNonZero,   \* some updateTextureSize call on a valid panel asked for a size
                  \* whose width and height are both not 0
  sizeChanges,    \* times the floored requested size differed from the one before
  panelsCreated,  \* OverlayPanel constructions so far
  ctorMgr,        \* "none", or whether Ogre's OverlayManager was there at construction
  attachCalls,    \* attach() calls so far: 0, 1, or 2 for two and more
  firstView,      \* the render panel of the first attach() that found a view manager
  sysEvent,       \* the last OverlayManager operation and how it ended
  geomCall,       \* the Geometry asked of the setGeometry call that has just placed
                  \* the panel, NoCall once anything else has happened
  released,       \* what ~OverlayPanel() has released, in the order released
  \* ---- several OverlayManager objects of one process, each on its own thread
  instPc,         \* instPc[m]: "idle", or where m's attach() stands: "count", "make"
  instCount,      \* instCount[m]: the value overlay_count++ gave m's attach(), -1 if none
  instName,       \* instName[m]: name of m's OverlayPanel, NoName while it has none
  instAttaches,   \* instAttaches[m]: attach() calls on m so far: 0, 1, or 2 for more
  issued          \* the values overlay_count++ has returned, in the order returned

geomVars == <<geometry_, geomResult>>
lockVars == <<guardAlive, guardBuf, guardRole, mapped, lockEvent>>
hostVars == <<viewSize, widgetSize>>
mgrVars == <<overlay_count, overlay_panel_, render_panel_>>
handleVars == <<name_, overlay_, panel_, material_>>
texVars == <<texture_, unitStates, texCreated, texRemoved, lastReq, sizeChanges,
             askedNonZero>>
placeVars == <<panelPos, panelDims>>
renderVars == <<pc, buffer, texLocked, image, pixels>>
histVars == <<panelsCreated, ctorMgr, attachCalls, firstView>>
sysVars == <<hostVars, mgrVars, handleVars, texVars, placeVars, visible,
             renderVars, histVars, sysEvent, geomCall, released>>
instVars == <<instPc, instCount, instName, instAttaches, issued>>
vars == <<geomVars, lockVars, sysVars, instVars>>

(***************************************************************************)
(* Bounds of the model                                                     *)
(***************************************************************************)
MaxDim == 2      \* overlay widths and heights are drawn from -1..MaxDim
MaxView == 2     \* render panel widths and heights are drawn from 0..MaxView
MaxOff == 2      \* requested offsets are drawn from -1..MaxOff
NumGuards == 3   \* ScopedPixelBuffer objects that can exist at once
NumBuffers == 2  \* hardware pixel buffers the host hands out
MaxCreates == 2  \* textures one run creates at most
NumPanels == 2   \* render panels the host's view manager can hand out
NumManagers == 3 \* OverlayManager objects that attach concurrently

Anchors == {"TopLeft", "TopRight", "BottomLeft", "BottomRight"}
Dims == -1..MaxDim
Offsets == -1..MaxOff
PanelSizes == (0..MaxView) \X (0..MaxView)
Geometries ==
  [width : Dims, height : Dims, offset_x : Offsets, offset_y : Offsets,
   anchor : Anchors]

(***************************************************************************)
(* OverlayGeometryManager                                                  *)
(***************************************************************************)
\* std::max and std::clamp as <algorithm> defines them
Max(a, b) == IF a < b THEN b ELSE a
Clamp(v, lo, hi) == IF v < lo THEN lo ELSE IF hi < v THEN hi ELSE v

\* a plausible slip: the upper limit is not floored at 0
calculateClampedOffsets_NoFloor(g, panel_size) ==
  <<Clamp(g.offset_x, 0, panel_size[1] - g.width),
    Clamp(g.offset_y, 0, panel_size[2] - g.height)>>

calculateClampedOffsets(g, panel_size) ==
  LET max_x_offset == Max(0, panel_size[1] - g.width)
      max_y_offset == Max(0, panel_size[2] - g.height)
      clamped_x == Clamp(g.offset_x, 0, max_x_offset)
      clamped_y == Clamp(g.offset_y, 0, max_y_offset)
  IN  <<clamped_x, clamped_y>>

\* a plausible slip: the right-hand anchors add the offset instead of subtracting it
calculateAbsolutePosition_AddX(g, panel_size) ==
  LET c == calculateClampedOffsets(g, panel_size)
  IN  CASE g.anchor = "TopRight" -> <<panel_size[1] - g.width + c[1], c[2]>>
        [] g.anchor = "TopLeft" -> <<c[1], c[2]>>
        [] g.anchor = "BottomRight" ->
             <<panel_size[1] - g.width + c[1], panel_size[2] - g.height - c[2]>>
        [] g.anchor = "BottomLeft" -> <<c[1], panel_size[2] - g.height - c[2]>>

\* a plausible slip: BottomLeft falls through to the TopLeft result
calculateAbsolutePosition_NoBottomLeft(g, panel_size) ==
  LET c == calculateClampedOffsets(g, panel_size)
  IN  CASE g.anchor = "TopRight" -> <<panel_size[1] - g.width - c[1], c[2]>>
        [] g.anchor = "TopLeft" -> <<c[1], c[2]>>
        [] g.anchor = "BottomRight" ->
             <<panel_size[1] - g.width - c[1], panel_size[2] - g.height - c[2]>>
        [] g.anchor = "BottomLeft" -> <<c[1], c[2]>>

\* a plausible slip: the far-edge anchors pin the overlay at 0 when the panel is empty
calculateAbsolutePosition_ZeroPanel(g, panel_size) ==
  LET c == calculateClampedOffsets(g, panel_size)
      far_x == IF panel_size[1] = 0 THEN 0 ELSE panel_size[1] - g.width - c[1]
      far_y == IF panel_size[2] = 0 THEN 0 ELSE panel_size[2] - g.height - c[2]
  IN  CASE g.anchor = "TopRight" -> <<far_x, c[2]>>
        [] g.anchor = "TopLeft" -> <<c[1], c[2]>>
        [] g.anchor = "BottomRight" -> <<far_x, far_y>>
        [] g.anchor = "BottomLeft" -> <<c[1], far_y>>

calculateAbsolutePosition(g, panel_size) ==
  LET c == calculateClampedOffsets(g, panel_size)
      clamped_x == c[1]
      clamped_y == c[2]
  IN  CASE g.anchor = "TopRight" ->
             <<panel_size[1] - g.width - clamped_x, clamped_y>>
        [] g.anchor = "TopLeft" ->
             <<clamped_x, clamped_y>>
        [] g.anchor = "BottomRight" ->
             <<panel_size[1] - g.width - clamped_x,
               panel_size[2] - g.height - clamped_y>>
        [] g.anchor = "BottomLeft" ->
             <<clamped_x, panel_size[2] - g.height - clamped_y>>

fitsWithinPanel(g, panel_size) ==
  g.width <= panel_size[1] /\ g.height <= panel_size[2]

\* The placement OverlayManager::setGeometry computes inline from its arguments:
\* the clamped offsets and the panel position it then sets.
setGeometryOffsets(width, height, offset_x, offset_y, panel_size) ==
  LET max_x_offset == Max(0, panel_size[1] - width)
      max_y_offset == Max(0, panel_size[2] - height)
  IN  <<Clamp(offset_x, 0, max_x_offset), Clamp(offset_y, 0, max_y_offset)>>

\* a plausible slip: the requested offsets are used as they come
setGeometryPosition_RawOffsets(width, height, offset_x, offset_y, anchor, panel_size) ==
  CASE anchor = "TopRight" -> <<panel_size[1] - width - offset_x, offset_y>>
    [] anchor = "TopLeft" -> <<offset_x, offset_y>>
    [] anchor = "BottomRight" ->
         <<panel_size[1] - width - offset_x, panel_size[2] - height - offset_y>>
    [] anchor = "BottomLeft" -> <<offset_x, panel_size[2] - height - offset_y>>

setGeometryPosition(width, height, offset_x, offset_y, anchor, panel_size) ==
  LET o == setGeometryOffsets(width, height, offset_x, offset_y, panel_size)
      x0 == o[1]
      y0 == o[2]
  IN  CASE anchor = "TopRight" -> <<panel_size[1] - width - x0, y0>>
        [] anchor = "TopLeft" -> <<x0, y0>>
        [] anchor = "BottomRight" ->
             <<panel_size[1] - width - x0, panel_size[2] - height - y0>>
        [] anchor = "BottomLeft" -> <<x0, panel_size[2] - height - y0>>

NoGeomResult ==
  [fn |-> "none", panel_size |-> <<0, 0>>, offsets |-> <<0, 0>>,
   position |-> <<0, 0>>, fits |-> FALSE]

\* calculateClampedOffsets(panel_size) called on the object
CalcClampedOffsets ==
  \E ps \in PanelSizes :
    /\ geomResult' = [NoGeomResult EXCEPT !.fn = "clampedOffsets",
                        !.panel_size = ps,
                        !.offsets = calculateClampedOffsets(geometry_, ps)]
    /\ UNCHANGED <<geometry_, lockVars, sysVars, instVars>>

\* calculateAbsolutePosition(panel_size) called on the object
CalcAbsolutePosition ==
  \E ps \in PanelSizes :
    /\ geomResult' = [NoGeomResult EXCEPT !.fn = "absolutePosition",
                        !.panel_size = ps,
                        !.offsets = calculateClampedOffsets(geometry_, ps),
                        !.position = calculateAbsolutePosition(geometry_, ps)]
    /\ UNCHANGED <<geometry_, lockVars, sysVars, instVars>>

\* fitsWithinPanel(panel_size) called on the object
FitsWithinPanel ==
  \E ps \in PanelSizes :
    /\ geomResult' = [NoGeomResult EXCEPT !.fn = "fitsWithinPanel",
                        !.panel_size = ps,
                        !.fits = fitsWithinPanel(geometry_, ps)]
    /\ UNCHANGED <<geometry_, lockVars, sysVars, instVars>>

\* the placement part of OverlayManager::setGeometry applied to the same geometry
CalcSetGeometryPlacement ==
  \E ps \in PanelSizes :
    /\ geomResult' = [NoGeomResult EXCEPT !.fn = "setGeometry",
                        !.panel_size = ps,
                        !.offsets = setGeometryOffsets(geometry_.width,
                                      geometry_.height, geometry_.offset_x,
                                      geometry_.offset_y, ps),
                        !.position = setGeometryPosition(geometry_.width,
                                      geometry_.height, geometry_.offset_x,
                                      geometry_.offset_y, geometry_.anchor, ps)]
    /\ UNCHANGED <<geometry_, lockVars, sysVars, instVars>>

(***************************************************************************)
(* ScopedPixelBuffer                                                       *)
(***************************************************************************)
NullBuf == 0     \* an empty Ogre::HardwarePixelBufferSharedPtr
Guards == 1..NumGuards
Buffers == 1..NumBuffers
ImgSizes == {<<0, 0>>, <<1, 2>>, <<2, 1>>}  \* widths and heights getQImage is asked for

\* ScopedPixelBuffer(buffer): the lock() calls the constructor makes
ctorLocks(handle) == IF handle # NullBuf THEN 1 ELSE 0

\* ~ScopedPixelBuffer(): the unlock() calls the destructor makes
\* a plausible slip: the destructor does not unlock
dtorUnlocks_Never(buffer_) == 0

dtorUnlocks(buffer_) == IF buffer_ # NullBuf THEN 1 ELSE 0

\* what std::move(other.buffer_) leaves in other.buffer_
\* a plausible slip: the handle is copied, the source keeps it
movedFromBuf_Copy(buffer_) == buffer_

movedFromBuf(buffer_) == NullBuf

\* operator=(ScopedPixelBuffer &&): the unlock() calls it makes on its own buffer
moveAssignUnlocks(self, other, buffer_) ==
  IF self # other THEN (IF buffer_ # NullBuf THEN 1 ELSE 0) ELSE 0

valid(buffer_) == buffer_ # NullBuf

\* getQImage(width, height): whether the QImage returned is null and how many
\* bytes of the mapped memory were cleared.  data_null: getCurrentLock().data is
\* a null pointer.  QImage(dest, w, h, fmt) is a null image when w or h is 0.
\* a plausible slip: the handle is not tested before the memory is used
getQImage_NoCheck(buffer_, data_null, width, height) ==
  IF data_null
    THEN [null |-> TRUE, width |-> 0, height |-> 0, bytes |-> 0]
    ELSE [null |-> (width = 0 \/ height = 0), width |-> width,
          height |-> height, bytes |-> width * height * 4]

\* a plausible slip: width and height change places in the QImage
getQImage_Swapped(buffer_, data_null, width, height) ==
  IF buffer_ = NullBuf \/ data_null
    THEN [null |-> TRUE, width |-> 0, height |-> 0, bytes |-> 0]
    ELSE [null |-> (width = 0 \/ height = 0), width |-> height,
          height |-> width, bytes |-> width * height * 4]

getQImage(buffer_, data_null, width, height) ==
  IF buffer_ = NullBuf
    THEN [null |-> TRUE, width |-> 0, height |-> 0, bytes |-> 0]
    ELSE IF data_null
      THEN [null |-> TRUE, width |-> 0, height |-> 0, bytes |-> 0]
      ELSE [null |-> (width = 0 \/ height = 0), width |-> width,
            height |-> height, bytes |-> width * height * 4]

NoImage == [null |-> TRUE, width |-> 0, height |-> 0, bytes |-> 0]

NoLockEvent ==
  [op |-> "none", self |-> 0, other |-> 0, thisBuf |-> NullBuf,
   otherBuf |-> NullBuf, role |-> "fresh", locks |-> 0, unlocks |-> 0,
   valid |-> FALSE, width |-> 0, height |-> 0, image |-> NoImage]

Holders(b) == {g \in Guards : guardAlive[g] /\ guardBuf[g] = b}

\* ScopedPixelBuffer g(buffer).  The buffer API allows one lock per buffer at a
\* time, so a buffer that is handed in is not locked already.
Construct(g, b) ==
  /\ ~guardAlive[g]
  /\ b # NullBuf => mapped[b] = 0
  /\ guardAlive' = [guardAlive EXCEPT ![g] = TRUE]
  /\ guardBuf' = [guardBuf EXCEPT ![g] = b]
  /\ guardRole' = [guardRole EXCEPT ![g] = "fresh"]
  /\ mapped' = [x \in Buffers |-> mapped[x] + (IF x = b THEN ctorLocks(b) ELSE 0)]
  /\ lockEvent' = [NoLockEvent EXCEPT !.op = "construct", !.self = g,
                     !.thisBuf = b, !.locks = ctorLocks(b)]
  /\ UNCHANGED <<geomVars, sysVars, instVars>>

\* ScopedPixelBuffer g(std::move(o))
MoveConstruct(g, o) ==
  /\ ~guardAlive[g]
  /\ guardAlive[o]
  /\ guardAlive' = [guardAlive EXCEPT ![g] = TRUE]
  /\ guardBuf' = [guardBuf EXCEPT ![g] = guardBuf[o],
                                  ![o] = movedFromBuf(guardBuf[o])]
  /\ guardRole' = [guardRole EXCEPT ![g] = "movedTo", ![o] = "movedFrom"]
  /\ mapped' = mapped
  /\ lockEvent' = [NoLockEvent EXCEPT !.op = "moveConstruct", !.self = g,
                     !.other = o, !.otherBuf = guardBuf[o],
                     !.role = guardRole[o]]
  /\ UNCHANGED <<geomVars, sysVars, instVars>>

\* g = std::move(o), o possibly g itself
MoveAssign(g, o) ==
  /\ guardAlive[g]
  /\ guardAlive[o]
  /\ LET n == moveAssignUnlocks(g, o, guardBuf[g])
     IN  /\ mapped' = [x \in Buffers |->
                         mapped[x] - (IF x = guardBuf[g] THEN n ELSE 0)]
         /\ lockEvent' = [NoLockEvent EXCEPT !.op = "moveAssign", !.self = g,
                            !.other = o, !.thisBuf = guardBuf[g],
                            !.otherBuf = guardBuf[o],
                            !.role = guardRole[g],
                            !.unlocks = n]
  /\ IF g # o
       THEN /\ guardBuf' = [guardBuf EXCEPT ![g] = guardBuf[o],
                                            ![o] = movedFromBuf(guardBuf[o])]
            /\ guardRole' = [guardRole EXCEPT ![g] = "movedTo", ![o] = "movedFrom"]
       ELSE UNCHANGED <<guardBuf, guardRole>>
  /\ UNCHANGED <<guardAlive, geomVars, sysVars, instVars>>

\* g goes out of scope
Destroy(g) ==
  /\ guardAlive[g]
  /\ LET n == dtorUnlocks(guardBuf[g])
     IN  /\ mapped' = [x \in Buffers |->
                         mapped[x] - (IF x = guardBuf[g] THEN n ELSE 0)]
         /\ lockEvent' = [NoLockEvent EXCEPT !.op = "destroy", !.self = g,
                            !.thisBuf = guardBuf[g],
                            !.role = guardRole[g],
                            !.unlocks = n]
  /\ guardAlive' = [guardAlive EXCEPT ![g] = FALSE]
  /\ guardBuf' = [guardBuf EXCEPT ![g] = NullBuf]
  /\ guardRole' = [guardRole EXCEPT ![g] = "fresh"]
  /\ UNCHANGED <<geomVars, sysVars, instVars>>

\* g.valid()
Valid(g) ==
  /\ guardAlive[g]
  /\ lockEvent' = [NoLockEvent EXCEPT !.op = "valid", !.self = g,
                     !.thisBuf = guardBuf[g],
                     !.role = guardRole[g],
                     !.valid = valid(guardBuf[g])]
  /\ UNCHANGED <<guardAlive, guardBuf, guardRole, mapped, geomVars, sysVars, instVars>>

\* g.getQImage(w, h)
GetQImage(g, w, h, data_null) ==
  /\ guardAlive[g]
  /\ lockEvent' = [NoLockEvent EXCEPT !.op = "getQImage", !.self = g,
                     !.thisBuf = guardBuf[g],
                     !.role = guardRole[g],
                     !.width = w, !.height = h,
                     !.image = getQImage(guardBuf[g], data_null, w, h)]
  /\ UNCHANGED <<guardAlive, guardBuf, guardRole, mapped, geomVars, sysVars, instVars>>

(***************************************************************************)
(* OverlayPanel                                                            *)
(***************************************************************************)
TexBuf == 1      \* texture_->getBuffer(), the texture's pixel buffer
NoTexture == [exists |-> FALSE, width |-> 0, height |-> 0]

\* a plausible slip: the width read is one more than the texture's
textureWidth_OneMore(t) == IF t.exists THEN t.width + 1 ELSE 0

textureWidth(t) == IF t.exists THEN t.width ELSE 0
textureHeight(t) == IF t.exists THEN t.height ELSE 0

\* updateTextureSize: a width or height of 0 becomes 1
\* a plausible slip: a 0 is kept
floorDim_Keep(d) == d

floorDim(d) == IF d = 0 THEN 1 ELSE d

\* updateTextureSize: the test that decides whether the texture is replaced
\* a plausible slip: the texture is replaced on every call
needsNewTexture_Always(t, width, height) == TRUE

needsNewTexture(t, width, height) ==
  ~t.exists \/ t.width # width \/ t.height # height

\* updateTextureSize(width, height) on a panel whose panel_ handle is p, texture
\* is t and material pass has us texture-unit states: the texture and unit states
\* afterwards, and the createManual and remove calls made.
\* a plausible slip: the panel_ test is missing
updateTextureSize_NoPanelCheck(p, t, us, width, height) ==
  LET w == floorDim(width)
      h == floorDim(height)
  IN  IF needsNewTexture(t, w, h)
        THEN [texture |-> [exists |-> TRUE, width |-> w, height |-> h],
              unitStates |-> (IF t.exists THEN 0 ELSE us) + 1,
              created |-> 1, removed |-> IF t.exists THEN 1 ELSE 0]
        ELSE [texture |-> t, unitStates |-> us, created |-> 0, removed |-> 0]

\* a plausible slip: a request with a width or height of 0 is dropped
updateTextureSize_SkipZero(p, t, us, width, height) ==
  IF ~p \/ width = 0 \/ height = 0
    THEN [texture |-> t, unitStates |-> us, created |-> 0, removed |-> 0]
    ELSE IF needsNewTexture(t, width, height)
      THEN [texture |-> [exists |-> TRUE, width |-> width, height |-> height],
            unitStates |-> (IF t.exists THEN 0 ELSE us) + 1,
            created |-> 1, removed |-> IF t.exists THEN 1 ELSE 0]
      ELSE [texture |-> t, unitStates |-> us, created |-> 0, removed |-> 0]

updateTextureSize(p, t, us, width, height) ==
  IF ~p
    THEN [texture |-> t, unitStates |-> us, created |-> 0, removed |-> 0]
    ELSE LET w == floorDim(width)
             h == floorDim(height)
         IN  IF needsNewTexture(t, w, h)
               THEN [texture |-> [exists |-> TRUE, width |-> w, height |-> h],
                     unitStates |-> (IF t.exists THEN 0 ELSE us) + 1,
                     created |-> 1, removed |-> IF t.exists THEN 1 ELSE 0]
               ELSE [texture |-> t, unitStates |-> us, created |-> 0,
                     removed |-> 0]

\* updateTextureSize(width, height): the calls made on Ogre's TextureManager and
\* on the material's pass, in the order made
\* a plausible slip: the new texture is created before the old one is removed
updateTextureSizeCalls_CreateFirst(p, t, width, height) ==
  IF ~p \/ ~needsNewTexture(t, floorDim(width), floorDim(height))
    THEN <<>>
    ELSE <<"createManual", "createTextureUnitState">>
           \o (IF t.exists THEN <<"remove", "removeAllTextureUnitStates">>
                           ELSE <<>>)

updateTextureSizeCalls(p, t, width, height) ==
  IF ~p
    THEN <<>>
    ELSE LET w == floorDim(width)
             h == floorDim(height)
         IN  IF needsNewTexture(t, w, h)
               THEN (IF t.exists THEN <<"remove", "removeAllTextureUnitStates">>
                                 ELSE <<>>)
                      \o <<"createManual", "createTextureUnitState">>
               ELSE <<>>

\* setDimensions / setPosition: forwarded to the panel element when it exists
\* a plausible slip: the dimensions are floored as the texture's are
setDimensions_Floored(p, dims, width, height) ==
  IF p THEN <<floorDim(width), floorDim(height)>> ELSE dims

setDimensions(p, dims, width, height) == IF p THEN <<width, height>> ELSE dims
setPosition(p, pos, left, top) == IF p THEN <<left, top>> ELSE pos

\* show() / hide() / isVisible()
showHide(o, vis, v) == IF o THEN v ELSE vis
isVisible(o, vis) == o /\ vis

\* getPixelBuffer(): the handle the returned ScopedPixelBuffer is built from.
\* buffer_ok: texture_->getBuffer() hands out a buffer.
getPixelBuffer(t, buffer_ok) ==
  IF ~t.exists THEN NullBuf ELSE IF buffer_ok THEN TexBuf ELSE NullBuf

\* The updateTextureSize(width, height) call of setGeometry and render, with the
\* bookkeeping of what was asked for.  A request is counted on a panel whose
\* handles exist.
Resize(width, height) ==
  LET r == updateTextureSize(panel_, texture_, unitStates, width, height)
      req == <<floorDim(width), floorDim(height)>>
  IN  /\ r.created > 0 => texCreated < MaxCreates
      /\ texture_' = r.texture
      /\ unitStates' = r.unitStates
      /\ texCreated' = texCreated + r.created
      /\ texRemoved' = texRemoved + r.removed
      /\ lastReq' = IF panel_ THEN req ELSE lastReq
      /\ sizeChanges' = IF panel_ /\ req # lastReq
                          THEN sizeChanges + 1 ELSE sizeChanges
      /\ askedNonZero' = (askedNonZero \/ (panel_ /\ width # 0 /\ height # 0))

(***************************************************************************)
(* OverlayManager                                                          *)
(***************************************************************************)
\* the widths and heights setGeometry is called with: 0 is floored to 1 by
\* updateTextureSize, the others are kept
SysWidths == {0, 1, 2}
SysHeights == {0, 1, 2}
\* the offsets and anchors setGeometry is called with, and the sizes the host
\* gives its render panel: none, smaller than an overlay, larger than any
SysPlacements == {<<0, 0, "TopLeft">>, <<1, 0, "TopRight">>,
                  <<-1, 3, "BottomRight">>, <<0, 1, "BottomLeft">>}
SysPanelSizes == {<<0, 0>>, <<1, 2>>, <<3, 3>>}
Views == 0..NumPanels    \* 0: the context has no view manager

NoCall == [width |-> -1, height |-> -1, offset_x |-> 0, offset_y |-> 0,
           anchor |-> "none"]

\* attach: a new OverlayPanel is made when none is held
attachCreates(has_panel) == ~has_panel

\* attach: the render panel held after the call
\* a plausible slip: the panel is taken from the view manager on every call
attachBinds_Always(rp, view) == IF view # 0 THEN view ELSE rp

attachBinds(rp, view) == IF rp = 0 THEN (IF view # 0 THEN view ELSE 0) ELSE rp

\* overlay_count++ on the static std::atomic<int>: one indivisible step that
\* returns the old value and stores the old value plus one
\* a plausible slip: the counter is read and not advanced
fetchAdd_NoIncrement(count) == [value |-> count, count |-> count]

fetchAdd(count) == [value |-> count, count |-> count + 1]

\* std::to_string of a counter value that is not negative: its decimal digits
DigitChars == <<"0", "1", "2", "3", "4", "5", "6", "7", "8", "9">>
RECURSIVE to_string(_)
to_string(n) ==
  IF n < 10 THEN <<DigitChars[n + 1]>>
            ELSE to_string(n \div 10) \o <<DigitChars[(n % 10) + 1]>>

\* "AttitudeDisplayHUD" + std::to_string(n), the name given to the OverlayPanel
NoName == <<>>
panelName(n) == <<"AttitudeDisplayHUD">> \o to_string(n)

\* attach(context).  mgr: Ogre::OverlayManager::getSingletonPtr() is non-null
\* when the OverlayPanel is constructed; view: the render panel of the
\* context's view manager, 0 when it has no view manager.
Attach(mgr, view) ==
  /\ pc = "idle"
  /\ geomCall' = NoCall
  /\ IF attachCreates(overlay_panel_)
       THEN /\ overlay_panel_' = TRUE
            /\ name_' = fetchAdd(overlay_count).value
            /\ overlay_count' = fetchAdd(overlay_count).count
            /\ overlay_' = mgr
            /\ panel_' = mgr
            /\ material_' = mgr
            /\ visible' = FALSE
            /\ panelsCreated' = panelsCreated + 1
            /\ ctorMgr' = IF mgr THEN "available" ELSE "unavailable"
       ELSE UNCHANGED <<overlay_panel_, name_, overlay_count, overlay_, panel_,
                        material_, visible, panelsCreated, ctorMgr>>
  /\ render_panel_' = attachBinds(render_panel_, view)
  /\ attachCalls' = IF attachCalls < 2 THEN attachCalls + 1 ELSE 2
  /\ firstView' = IF firstView = 0 THEN view ELSE firstView
  /\ sysEvent' = IF panelsCreated' # panelsCreated
                   THEN (IF render_panel_' # render_panel_
                           THEN "attach:created+bound" ELSE "attach:created")
                   ELSE (IF render_panel_' # render_panel_
                           THEN "attach:bound" ELSE "attach:kept")
  /\ UNCHANGED <<geomVars, lockVars, instVars, released, hostVars, texVars, placeVars, renderVars>>

\* setGeometry: the test that ends the call before anything is done.
\* has_panel: overlay_panel_ is non-null; rp: render_panel_
\* a plausible slip: the render panel is not tested
setGeometryReturnsEarly_PanelOnly(has_panel, rp) == ~has_panel

setGeometryReturnsEarly(has_panel, rp) == ~has_panel \/ rp = 0

\* setGeometry(width, height, offset_x, offset_y, anchor), width and height not
\* negative as Geometry requires, so that the casts to unsigned keep them
SetGeometry(width, height, offset_x, offset_y, anchor) ==
  /\ pc = "idle"
  /\ IF setGeometryReturnsEarly(overlay_panel_, render_panel_)
       THEN /\ sysEvent' = "setGeometry:skipped"
            /\ geomCall' = NoCall
            /\ UNCHANGED <<texVars, placeVars>>
       ELSE LET panel_size == viewSize
                xy == setGeometryPosition(width, height, offset_x, offset_y,
                                          anchor, panel_size)
            IN  /\ Resize(width, height)
                /\ panelDims' = setDimensions(panel_, panelDims, width, height)
                /\ panelPos' = setPosition(panel_, panelPos, xy[1], xy[2])
                /\ geomCall' = IF panel_
                                 THEN [width |-> width, height |-> height,
                                       offset_x |-> offset_x,
                                       offset_y |-> offset_y, anchor |-> anchor]
                                 ELSE NoCall
                /\ sysEvent' = IF texCreated' = texCreated
                                  THEN "setGeometry:kept"
                                  ELSE IF texRemoved' = texRemoved
                                    THEN "setGeometry:created"
                                    ELSE "setGeometry:replaced"
  /\ UNCHANGED <<geomVars, lockVars, instVars, released, hostVars, mgrVars, handleVars, visible,
                 renderVars, histVars>>

\* setVisible(visible)
SetVisible(v) ==
  /\ pc = "idle"
  /\ geomCall' = NoCall
  /\ IF ~overlay_panel_
       THEN /\ sysEvent' = "setVisible:skipped"
            /\ UNCHANGED visible
       ELSE /\ visible' = showHide(overlay_, visible, v)
            /\ sysEvent' = "setVisible:done"
  /\ UNCHANGED <<geomVars, lockVars, instVars, released, hostVars, mgrVars, handleVars, texVars,
                 placeVars, renderVars, histVars>>

\* render: the test of the texture size that ends the call before anything is done
\* a plausible slip: the test is missing
nothingToRender_Never(width, height) == FALSE

nothingToRender(width, height) == width = 0 \/ height = 0

\* render(widget) up to the construction of the ScopedPixelBuffer and the test of
\* buffer.valid(); the early returns end the call here
RenderBegin ==
  /\ pc = "idle"
  /\ geomCall' = NoCall
  /\ IF ~overlay_panel_
       THEN /\ sysEvent' = "render:no_resource"
            /\ UNCHANGED <<hostVars, texVars, placeVars, renderVars>>
       ELSE LET width == textureWidth(texture_)
                height == textureHeight(texture_)
            IN  IF nothingToRender(width, height)
                  THEN /\ sysEvent' = "render:no_texture"
                       /\ UNCHANGED <<hostVars, texVars, placeVars, renderVars>>
                  ELSE /\ Resize(width, height)
                       /\ panelDims' = setDimensions(panel_, panelDims, width, height)
                       /\ widgetSize' = <<width, height>>
                       /\ \E buffer_ok \in BOOLEAN :
                            LET b == getPixelBuffer(texture_', buffer_ok)
                            IN  IF valid(b)
                                  THEN /\ texLocked' = texLocked + ctorLocks(b)
                                       /\ buffer' = b
                                       /\ pixels' = "stale"
                                       /\ pc' = "locked"
                                       /\ sysEvent' = "render:running"
                                  ELSE /\ texLocked' = texLocked + ctorLocks(b)
                                                         - dtorUnlocks(b)
                                       /\ buffer' = NullBuf
                                       /\ pixels' = pixels
                                       /\ pc' = "idle"
                                       /\ sysEvent' = "render:invalid_lock"
                       /\ UNCHANGED <<viewSize, panelPos, image>>
  /\ UNCHANGED <<geomVars, lockVars, instVars, released, mgrVars, handleVars, visible, histVars>>

\* render(widget) from buffer.getQImage to the construction of the QPainter; a
\* null image ends the call and the ScopedPixelBuffer is destroyed
RenderSurface ==
  /\ pc = "locked"
  /\ geomCall' = NoCall
  /\ \E data_null \in BOOLEAN :
       LET img == getQImage(buffer, data_null, textureWidth(texture_),
                            textureHeight(texture_))
       IN  IF img.null
             THEN /\ texLocked' = texLocked - dtorUnlocks(buffer)
                  /\ buffer' = NullBuf
                  /\ image' = NoImage
                  /\ pixels' = "unmapped"
                  /\ pc' = "idle"
                  /\ sysEvent' = "render:null_image"
             ELSE /\ image' = img
                  /\ pixels' = "zero"
                  /\ pc' = "painting"
                  /\ sysEvent' = "render:running"
                  /\ UNCHANGED <<texLocked, buffer>>
  /\ UNCHANGED <<geomVars, lockVars, instVars, released, hostVars, mgrVars, handleVars, texVars,
                 placeVars, visible, histVars>>

\* render(widget): widget.render(&painter), painter.end() and the return, which
\* destroys the QImage and the ScopedPixelBuffer
RenderPaint ==
  /\ pc = "painting"
  /\ geomCall' = NoCall
  /\ pixels' = "unmapped"
  /\ image' = NoImage
  /\ texLocked' = texLocked - dtorUnlocks(buffer)
  /\ buffer' = NullBuf
  /\ pc' = "idle"
  /\ sysEvent' = "render:painted"
  /\ UNCHANGED <<geomVars, lockVars, instVars, released, hostVars, mgrVars, handleVars, texVars,
                 placeVars, visible, histVars>>

\* the host resizes its render panel between two calls
HostResize(ps) ==
  /\ pc = "idle"
  /\ geomCall' = NoCall
  /\ ps # viewSize
  /\ viewSize' = ps
  /\ UNCHANGED <<geomVars, lockVars, instVars, released, widgetSize, mgrVars, handleVars, texVars,
                 placeVars, visible, renderVars, histVars, sysEvent>>

\* ~OverlayPanel(): the releases made, in order.  o, m: overlay_ and material_
\* are non-null; t: texture_; overlay_mgr: Ogre::OverlayManager::getSingletonPtr()
\* is non-null when the destructor runs.
\* a plausible slip: the texture is not removed
dtorReleases_NoTexture(o, m, t, overlay_mgr) ==
  (IF o /\ overlay_mgr THEN <<"element", "overlay">> ELSE <<>>)
    \o (IF m THEN <<"material">> ELSE <<>>)

dtorReleases(o, m, t, overlay_mgr) ==
  (IF o /\ overlay_mgr THEN <<"element", "overlay">> ELSE <<>>)
    \o (IF m THEN <<"material">> ELSE <<>>)
    \o (IF t.exists THEN <<"texture">> ELSE <<>>)

\* ~OverlayManager(): the unique_ptr destroys the OverlayPanel if it holds one.
\* overlay_mgr: Ogre's OverlayManager still exists.
DestroyManager(overlay_mgr) ==
  /\ pc = "idle"
  /\ geomCall' = NoCall
  /\ pc' = "destroyed"
  /\ IF ~overlay_panel_
       THEN /\ sysEvent' = "destroy:no_panel"
            /\ UNCHANGED <<released, texRemoved>>
       ELSE LET rel == dtorReleases(overlay_, material_, texture_, overlay_mgr)
            IN  /\ released' = released \o rel
                /\ texRemoved' = texRemoved
                     + Cardinality({i \in 1..Len(rel) : rel[i] = "texture"})
                /\ sysEvent' = IF overlay_ /\ ~overlay_mgr
                                 THEN "destroy:overlay_kept"
                                 ELSE "destroy:done"
  /\ UNCHANGED <<geomVars, lockVars, instVars, hostVars, mgrVars, handleVars,
                 texture_, unitStates, texCreated, lastReq, sizeChanges,
                 askedNonZero, placeVars, visible, buffer, texLocked, image,
                 pixels, histVars>>

(***************************************************************************)
(* Several OverlayManager objects, each attached by its own thread         *)
(***************************************************************************)
Managers == 1..NumManagers

\* attach(context) of manager m, the test of overlay_panel_: a manager that
\* holds a panel goes on to the render panel and returns
InstAttachBegin(m) ==
  /\ instPc[m] = "idle"
  /\ instAttaches' = [instAttaches EXCEPT
                        ![m] = IF instAttaches[m] < 2 THEN instAttaches[m] + 1
                                                      ELSE 2]
  /\ instPc' = [instPc EXCEPT
                  ![m] = IF attachCreates(instName[m] # NoName) THEN "count"
                                                                ELSE "idle"]
  /\ UNCHANGED <<geomVars, lockVars, sysVars, instCount, instName, issued>>

\* attach(context) of manager m: overlay_count++
InstAttachCount(m) ==
  /\ instPc[m] = "count"
  /\ LET r == fetchAdd(overlay_count)
     IN  /\ instCount' = [instCount EXCEPT ![m] = r.value]
         /\ overlay_count' = r.count
         /\ issued' = Append(issued, r.value)
  /\ instPc' = [instPc EXCEPT ![m] = "make"]
  /\ UNCHANGED <<geomVars, lockVars, hostVars, overlay_panel_, render_panel_,
                 handleVars, texVars, placeVars, visible, renderVars, histVars,
                 sysEvent, geomCall, released, instName, instAttaches>>

\* attach(context) of manager m: the OverlayPanel is constructed under the name
\* built from the value counted and stored in overlay_panel_
InstAttachMake(m) ==
  /\ instPc[m] = "make"
  /\ instName' = [instName EXCEPT ![m] = panelName(instCount[m])]
  /\ instCount' = [instCount EXCEPT ![m] = -1]
  /\ instPc' = [instPc EXCEPT ![m] = "idle"]
  /\ UNCHANGED <<geomVars, lockVars, sysVars, instAttaches, issued>>

(***************************************************************************)
(* Specifications                                                          *)
(***************************************************************************)
\* no OverlayManager has been attached
InstIdle == /\ instPc = [m \in Managers |-> "idle"]
            /\ instCount = [m \in Managers |-> -1]
            /\ instName = [m \in Managers |-> NoName]
            /\ instAttaches = [m \in Managers |-> 0]
            /\ issued = <<>>

GeomIdle == geometry_ = [width |-> 0, height |-> 0, offset_x |-> 0,
                         offset_y |-> 0, anchor |-> "TopLeft"]
            /\ geomResult = NoGeomResult

LockIdle == /\ guardAlive = [g \in Guards |-> FALSE]
            /\ guardBuf = [g \in Guards |-> NullBuf]
            /\ guardRole = [g \in Guards |-> "fresh"]
            /\ mapped = [b \in Buffers |-> 0]
            /\ lockEvent = NoLockEvent

\* a freshly constructed OverlayManager: no panel, no render panel
SysFresh == /\ widgetSize = <<0, 0>>
            /\ overlay_count = 0
            /\ overlay_panel_ = FALSE
            /\ render_panel_ = 0
            /\ name_ = -1
            /\ overlay_ = FALSE
            /\ panel_ = FALSE
            /\ material_ = FALSE
            /\ texture_ = NoTexture
            /\ unitStates = 0
            /\ visible = FALSE
            /\ panelPos = <<0, 0>>
            /\ panelDims = <<0, 0>>
            /\ pc = "idle"
            /\ buffer = NullBuf
            /\ texLocked = 0
            /\ image = NoImage
            /\ pixels = "unmapped"
            /\ texCreated = 0
            /\ texRemoved = 0
            /\ lastReq = <<0, 0>>
            /\ sizeChanges = 0
            /\ askedNonZero = FALSE
            /\ panelsCreated = 0
            /\ ctorMgr = "none"
            /\ attachCalls = 0
            /\ firstView = 0
            /\ sysEvent = "none"
            /\ geomCall = NoCall
            /\ released = <<>>

SysIdle == SysFresh /\ viewSize = <<0, 0>>

\* an OverlayGeometryManager holding some geometry, no query made yet
InitGeom == /\ geometry_ \in Geometries
            /\ geomResult = NoGeomResult
            /\ LockIdle
            /\ SysIdle
            /\ InstIdle

NextGeom == \/ CalcClampedOffsets
            \/ CalcAbsolutePosition
            \/ FitsWithinPanel
            \/ CalcSetGeometryPlacement

SpecGeom == InitGeom /\ [][NextGeom]_vars

\* no ScopedPixelBuffer exists, no buffer is locked
InitLock == LockIdle /\ GeomIdle /\ SysIdle /\ InstIdle

NextLock == \/ \E g \in Guards, b \in Buffers \cup {NullBuf} : Construct(g, b)
            \/ \E g \in Guards, o \in Guards : MoveConstruct(g, o)
            \/ \E g \in Guards, o \in Guards : MoveAssign(g, o)
            \/ \E g \in Guards : Destroy(g)
            \/ \E g \in Guards : Valid(g)
            \/ \E g \in Guards, wh \in ImgSizes, dn \in BOOLEAN :
                 GetQImage(g, wh[1], wh[2], dn)

SpecLock == InitLock /\ [][NextLock]_vars

\* a freshly constructed OverlayManager in a host whose render panel has some size
Init == /\ SysFresh /\ viewSize \in SysPanelSizes
        /\ GeomIdle /\ LockIdle /\ InstIdle

Next == \/ \E mgr \in BOOLEAN, view \in Views : Attach(mgr, view)
        \/ \E w \in SysWidths, h \in SysHeights, p \in SysPlacements :
             SetGeometry(w, h, p[1], p[2], p[3])
        \/ \E v \in BOOLEAN : SetVisible(v)
        \/ RenderBegin
        \/ RenderSurface
        \/ RenderPaint
        \/ \E ps \in SysPanelSizes : HostResize(ps)

Spec == Init /\ [][Next]_vars

\* OverlayManager objects of one process, none attached yet, the static counter
\* at its initial value
InitNames == InstIdle /\ SysIdle /\ GeomIdle /\ LockIdle

NextNames == \/ \E m \in Managers : InstAttachBegin(m)
             \/ \E m \in Managers : InstAttachCount(m)
             \/ \E m \in Managers : InstAttachMake(m)

SpecNames == InitNames /\ [][NextNames]_vars

\* one OverlayManager from its construction to its destruction
NextTeardown == \/ Next
                \/ \E overlay_mgr \in BOOLEAN : DestroyManager(overlay_mgr)

SpecTeardown == Init /\ [][NextTeardown]_vars

(***************************************************************************)
(* Properties of ScopedPixelBuffer (SpecLock)                              *)
(***************************************************************************)

\* C1: every lock() made by a constructor is matched by exactly one unlock():
\* at any time a buffer's outstanding locks are exactly the live objects that
\* hold it; a move hands the buffer to its destination and empties the source;
\* destroying a moved-from object unlocks nothing and destroying an object
\* that holds a buffer unlocks it exactly once.
C1_UnmapOncePerMap ==
  /\ \A b \in Buffers : mapped[b] = Cardinality(Holders(b))
  /\ (lockEvent.op = "destroy" /\ lockEvent.role = "movedFrom")
       => lockEvent.unlocks = 0
  /\ (lockEvent.op = "destroy" /\ lockEvent.thisBuf # NullBuf)
       => (lockEvent.unlocks = 1 /\ mapped[lockEvent.thisBuf] = 0)
  /\ lockEvent.op = "moveConstruct"
       => /\ lockEvent.unlocks = 0
          /\ guardBuf[lockEvent.self] = lockEvent.otherBuf
          /\ guardBuf[lockEvent.other] = NullBuf
  /\ (lockEvent.op = "moveAssign" /\ lockEvent.self # lockEvent.other)
       => /\ lockEvent.unlocks = (IF lockEvent.thisBuf # NullBuf THEN 1 ELSE 0)
          /\ guardBuf[lockEvent.self] = lockEvent.otherBuf
          /\ guardBuf[lockEvent.other] = NullBuf

\* C1 happens: a buffer was locked, moved, and the object it was moved to has
\* just been destroyed with one unlock; no object is left and nothing is locked.
C1_Witness ==
  /\ lockEvent.op = "destroy"
  /\ lockEvent.role = "movedTo"
  /\ lockEvent.thisBuf # NullBuf
  /\ lockEvent.unlocks = 1
  /\ \A g \in Guards : ~guardAlive[g]
  /\ \A b \in Buffers : mapped[b] = 0

\* C8: an object whose buffer_ is empty locks nothing when constructed, is not
\* valid(), returns a null QImage from getQImage for every width and height
\* and clears no memory, and unlocks nothing when it is destroyed, moved from,
\* or assigned to.
C8_InvalidLockInert ==
  /\ (lockEvent.op = "construct" /\ lockEvent.thisBuf = NullBuf)
       => (lockEvent.locks = 0 /\ ~valid(guardBuf[lockEvent.self])
           /\ \A b \in Buffers : mapped[b] = Cardinality(Holders(b)))
  /\ (lockEvent.op = "valid" /\ lockEvent.thisBuf = NullBuf)
       => ~lockEvent.valid
  /\ (lockEvent.op = "getQImage" /\ lockEvent.thisBuf = NullBuf)
       => (lockEvent.image.null /\ lockEvent.image.bytes = 0)
  /\ (lockEvent.op = "destroy" /\ lockEvent.thisBuf = NullBuf)
       => lockEvent.unlocks = 0
  /\ (lockEvent.op = "moveConstruct" /\ lockEvent.otherBuf = NullBuf)
       => (lockEvent.unlocks = 0 /\ guardBuf[lockEvent.self] = NullBuf)
  /\ (lockEvent.op = "moveAssign" /\ lockEvent.thisBuf = NullBuf)
       => lockEvent.unlocks = 0

\* C8 happens: getQImage of a non-empty size was asked of an object that was
\* constructed from the empty handle, and a null image came back.
C8_Witness ==
  /\ lockEvent.op = "getQImage"
  /\ lockEvent.thisBuf = NullBuf
  /\ lockEvent.role = "fresh"
  /\ lockEvent.width > 0 /\ lockEvent.height > 0
  /\ lockEvent.image.null

(***************************************************************************)
(* Properties of OverlayGeometryManager (SpecGeom)                         *)
(***************************************************************************)
OnRightEdge(a) == a \in {"TopRight", "BottomRight"}
OnBottomEdge(a) == a \in {"BottomLeft", "BottomRight"}

\* c lies in [0, max(0, v - s)], and is 0 when the overlay is larger than the panel
InClampRange(c, v, s) ==
  /\ 0 <= c
  /\ c <= (IF v - s > 0 THEN v - s ELSE 0)
  /\ s > v => c = 0

\* C4: whatever offsets are requested, each clamped offset lies in
\* [0, max(0, V - S)] on its axis, and is 0 on an axis where the overlay is
\* larger than the panel; this holds of calculateClampedOffsets and of the
\* clamping setGeometry does inline.
C4_ClampedInRange ==
  geomResult.fn \in {"clampedOffsets", "absolutePosition", "setGeometry"}
    => /\ InClampRange(geomResult.offsets[1], geomResult.panel_size[1],
                       geometry_.width)
       /\ InClampRange(geomResult.offsets[2], geomResult.panel_size[2],
                       geometry_.height)

\* C4 happens: a requested x offset beyond the free room was cut down to it.
C4_Witness ==
  /\ geomResult.fn = "clampedOffsets"
  /\ geomResult.panel_size[1] - geometry_.width > 0
  /\ geometry_.offset_x > geomResult.panel_size[1] - geometry_.width
  /\ geomResult.offsets[1] = geomResult.panel_size[1] - geometry_.width
  /\ geometry_.height > geomResult.panel_size[2]
  /\ geomResult.offsets[2] = 0

\* C5: when the panel is at least as large as the overlay on both axes, the
\* position p satisfies 0 <= p and p + S <= V on both axes, for every anchor
\* and every requested offset.
C5_InsideViewport ==
  (/\ geomResult.fn \in {"absolutePosition", "setGeometry"}
   /\ geometry_.width <= geomResult.panel_size[1]
   /\ geometry_.height <= geomResult.panel_size[2])
    => /\ 0 <= geomResult.position[1]
       /\ geomResult.position[1] + geometry_.width <= geomResult.panel_size[1]
       /\ 0 <= geomResult.position[2]
       /\ geomResult.position[2] + geometry_.height <= geomResult.panel_size[2]

\* C5 happens: a bottom-right overlay smaller than the panel, asked for with
\* offsets beyond the free room, was placed at the panel's top-left limit.
C5_Witness ==
  /\ geomResult.fn = "absolutePosition"
  /\ geometry_.anchor = "BottomRight"
  /\ geometry_.width > 0 /\ geometry_.height > 0
  /\ geometry_.width < geomResult.panel_size[1]
  /\ geometry_.height < geomResult.panel_size[2]
  /\ geometry_.offset_x > geomResult.panel_size[1] - geometry_.width
  /\ geometry_.offset_y > geomResult.panel_size[2] - geometry_.height
  /\ geomResult.position = <<0, 0>>

\* C6: calculateAbsolutePosition is the anchor resolution of the clamped
\* offsets (cx, cy): TopLeft (cx, cy); TopRight (Vw - Sw - cx, cy); BottomLeft
\* (cx, Vh - Sh - cy); BottomRight (Vw - Sw - cx, Vh - Sh - cy); and a
\* 200x200 overlay at BottomRight with offsets (10,10) in a 1920x1080 panel is
\* placed at (1710, 870).
C6_AnchorResolution ==
  /\ geomResult.fn = "absolutePosition"
       => /\ geomResult.position[1] =
               (IF OnRightEdge(geometry_.anchor)
                  THEN geomResult.panel_size[1] - geometry_.width
                         - geomResult.offsets[1]
                  ELSE geomResult.offsets[1])
          /\ geomResult.position[2] =
               (IF OnBottomEdge(geometry_.anchor)
                  THEN geomResult.panel_size[2] - geometry_.height
                         - geomResult.offsets[2]
                  ELSE geomResult.offsets[2])
  /\ calculateAbsolutePosition(
       [width |-> 200, height |-> 200, offset_x |-> 10, offset_y |-> 10,
        anchor |-> "BottomRight"], <<1920, 1080>>) = <<1710, 870>>

\* C6 happens: a bottom-left overlay was placed, its y measured from the bottom
\* edge and so different from the clamped y offset.
C6_Witness ==
  /\ geomResult.fn = "absolutePosition"
  /\ geometry_.anchor = "BottomLeft"
  /\ geomResult.offsets[1] > 0
  /\ geomResult.position[1] = geomResult.offsets[1]
  /\ geomResult.position[2] # geomResult.offsets[2]

\* C7 as stated, for the overlay sizes that are not negative: with a 0x0 panel
\* calculateAbsolutePosition returns (0,0) for every geometry.
C7_Original ==
  (/\ geomResult.fn = "absolutePosition"
   /\ geomResult.panel_size = <<0, 0>>
   /\ geometry_.width >= 0 /\ geometry_.height >= 0)
    => geomResult.position = <<0, 0>>

\* C7 amended: with a 0x0 panel and an overlay size that is not negative, both
\* clamped offsets are 0 and the position is minus the overlay size on each
\* axis the anchor measures from the far edge, 0 on the others: (0,0) for
\* TopLeft, (-Sw,0) for TopRight, (0,-Sh) for BottomLeft, (-Sw,-Sh) for
\* BottomRight.
C7_ZeroViewport ==
  (/\ geomResult.fn = "absolutePosition"
   /\ geomResult.panel_size = <<0, 0>>
   /\ geometry_.width >= 0 /\ geometry_.height >= 0)
    => /\ geomResult.offsets = <<0, 0>>
       /\ geomResult.position =
            <<IF OnRightEdge(geometry_.anchor) THEN 0 - geometry_.width ELSE 0,
              IF OnBottomEdge(geometry_.anchor) THEN 0 - geometry_.height ELSE 0>>

\* C7 happens: a bottom-right overlay of non-zero size was placed in a 0x0 panel.
C7_Witness ==
  /\ geomResult.fn = "absolutePosition"
  /\ geomResult.panel_size = <<0, 0>>
  /\ geometry_.anchor = "BottomRight"
  /\ geometry_.width > 0 /\ geometry_.height > 0
  /\ geometry_.offset_x > 0
  /\ geomResult.position = <<0 - geometry_.width, 0 - geometry_.height>>

(***************************************************************************)
(* Properties of OverlayManager and OverlayPanel (Spec)                    *)
(***************************************************************************)
TextureSize == <<textureWidth(texture_), textureHeight(texture_)>>
SetGeometryDone ==
  sysEvent \in {"setGeometry:created", "setGeometry:replaced", "setGeometry:kept"}

\* C2: the texture buffer is never locked more than once; it is locked only
\* while a render() call stands between the construction and the destruction
\* of its ScopedPixelBuffer, and whenever render() has returned (by any of its
\* exits) and between any two operations no lock is held.
C2_LockScopedToRender ==
  /\ texLocked \in {0, 1}
  /\ pc = "idle" => (texLocked = 0 /\ buffer = NullBuf /\ image = NoImage)
  /\ pc \in {"locked", "painting"} => (texLocked = 1 /\ buffer = TexBuf)
  /\ sysEvent \in {"render:no_resource", "render:no_texture",
                   "render:invalid_lock", "render:null_image", "render:painted"}
       => (pc = "idle" /\ texLocked = 0)

\* C2 happens: a render() that locked the buffer and painted has returned.
C2_Witness ==
  /\ sysEvent = "render:painted"
  /\ pc = "idle"
  /\ texLocked = 0

\* C3 as stated: a setGeometry on a valid panel that left the texture alone was
\* one whose requested size equals the texture's size (a request that differs
\* removes the texture and creates a new one).
C3_Original ==
  (sysEvent = "setGeometry:kept" /\ panel_) => panelDims = TextureSize

\* C3 amended: sizes are compared after a requested 0 is floored to 1.  On a
\* valid panel the textures created are as many as the changes of the floored
\* requested size (the first request counted), every creation but the first
\* removed the texture before it, the texture has the floored size last asked
\* for, and a call that asks for the size the texture has creates and removes
\* nothing.
C3_ResizeOncePerChange ==
  /\ texCreated = sizeChanges
  /\ texRemoved = (IF texCreated > 0 THEN texCreated - 1 ELSE 0)
  /\ texture_.exists <=> texCreated > 0
  /\ texture_.exists => TextureSize = lastReq
  /\ (SetGeometryDone /\ panel_)
       => /\ TextureSize = <<floorDim(panelDims[1]), floorDim(panelDims[2])>>
          /\ sysEvent = "setGeometry:created" => texCreated = 1
          /\ sysEvent = "setGeometry:replaced" => texCreated > 1

\* C3 happens: after a texture was created and then replaced by one of another
\* size, a setGeometry asking for the size it has left it alone.
C3_Witness ==
  /\ sysEvent = "setGeometry:kept"
  /\ panel_
  /\ texCreated = 2
  /\ texRemoved = 1
  /\ sizeChanges = 2
  /\ panelDims = TextureSize

\* C9: when Ogre's OverlayManager is missing at the time the OverlayPanel is
\* constructed, the overlay, panel, material and texture handles are null and
\* stay null: no texture is ever created, no buffer locked, render() never gets
\* past its first tests, isVisible() is false, the panel element is never
\* touched, and attach() never constructs a second OverlayPanel.
C9_UnavailableIsPermanent ==
  ctorMgr = "unavailable"
    => /\ overlay_panel_
       /\ ~overlay_ /\ ~panel_ /\ ~material_ /\ ~texture_.exists
       /\ texCreated = 0 /\ texRemoved = 0 /\ unitStates = 0
       /\ texLocked = 0 /\ buffer = NullBuf
       /\ pc = "idle"
       /\ sysEvent \notin {"render:running", "render:painted",
                           "render:null_image", "render:invalid_lock",
                           "setGeometry:created", "setGeometry:replaced"}
       /\ widgetSize = <<0, 0>>
       /\ ~isVisible(overlay_, visible)
       /\ panelPos = <<0, 0>> /\ panelDims = <<0, 0>>
       /\ panelsCreated = 1

\* C9 happens: on a panel constructed without Ogre's OverlayManager, with a
\* render panel bound and after a second attach, setGeometry ran to its end.
C9_Witness ==
  /\ ctorMgr = "unavailable"
  /\ render_panel_ # 0
  /\ attachCalls = 2
  /\ sysEvent = "setGeometry:kept"

\* C10: however often attach() is called, one OverlayPanel is constructed, by
\* the first call; the render panel held is the one of the first call that
\* found a view manager and is never replaced; a call that finds no view
\* manager leaves the render panel unbound.
C10_AttachOnce ==
  /\ panelsCreated = (IF attachCalls > 0 THEN 1 ELSE 0)
  /\ overlay_panel_ <=> attachCalls > 0
  /\ overlay_count = panelsCreated
  /\ render_panel_ = firstView
  /\ sysEvent \in {"attach:created", "attach:created+bound"} => attachCalls = 1
  /\ sysEvent \in {"attach:bound", "attach:kept"} => attachCalls = 2

\* C10 happens: an attach() after the first bound the render panel that the
\* earlier calls, finding no view manager, had left unbound; one panel exists.
C10_Witness ==
  /\ sysEvent = "attach:bound"
  /\ attachCalls = 2
  /\ panelsCreated = 1
  /\ render_panel_ # 0

\* C12: a render() called while no OverlayPanel exists, or while the panel has
\* no texture (its size reads 0x0), ends at once: it is never the start of a
\* render that locks or paints, and the step changes nothing - the widget is
\* not resized, nothing is locked, no texture is created or removed, no image
\* is made and the panel element is not touched.
C12_RenderWithoutTexture ==
  [][/\ (pc = "idle" /\ (~overlay_panel_ \/ ~texture_.exists))
          => sysEvent' \notin {"render:running", "render:invalid_lock",
                               "render:null_image", "render:painted"}
     /\ sysEvent' \in {"render:no_resource", "render:no_texture"}
          => /\ pc = "idle" /\ (~overlay_panel_ \/ ~texture_.exists)
             /\ UNCHANGED <<widgetSize, texVars, placeVars, renderVars,
                            mgrVars, handleVars, visible>>
             /\ pc' = "idle" /\ texLocked' = 0 /\ pixels' = "unmapped"]_vars

\* C12 happens: render() was called on a valid panel that is attached and bound
\* to a render panel but has not been given a geometry, and it returned at the
\* test of the texture size.
C12_Witness ==
  /\ sysEvent = "render:no_texture"
  /\ overlay_panel_ /\ panel_
  /\ render_panel_ # 0
  /\ ~texture_.exists
  /\ texCreated = 0 /\ texLocked = 0
  /\ widgetSize = <<0, 0>>

\* C13: when render() is about to call the widget's paint, the widget, the
\* QImage and the texture have the same size, which is not empty; the texture's
\* buffer is locked once and held by render's ScopedPixelBuffer; every byte of
\* the image was cleared and the surface is fully transparent.
C13_PaintOnMatchingSurface ==
  pc = "painting"
    => /\ texture_.exists
       /\ widgetSize = TextureSize
       /\ ~image.null
       /\ <<image.width, image.height>> = TextureSize
       /\ TextureSize[1] >= 1 /\ TextureSize[2] >= 1
       /\ texLocked = 1
       /\ valid(buffer) /\ buffer = TexBuf
       /\ image.bytes = TextureSize[1] * TextureSize[2] * 4
       /\ pixels = "zero"

\* C13 happens: render() stands before paint on a texture that is not square
\* and that replaced an earlier one, the widget resized to it.
C13_Witness ==
  /\ pc = "painting"
  /\ TextureSize[1] # TextureSize[2]
  /\ texCreated = 2
  /\ widgetSize = TextureSize
  /\ pixels = "zero"

\* C14 as stated: on a valid panel the texture handle is non-null exactly when
\* some earlier updateTextureSize call asked for a size whose width and height
\* are both not 0.
C14_Original ==
  panel_ => (texture_.exists <=> askedNonZero)

\* C14 amended: on a valid panel the texture handle is non-null exactly when
\* some earlier setGeometry reached updateTextureSize, whatever size it asked
\* for: a width or height of 0 is floored to 1 and a texture is created, so a
\* panel that was only ever asked for a zero size has a texture, and only a
\* panel that was never asked has none.  A request for a non-zero size always
\* leaves a texture, and a panel whose handles are null never has one.
C14_TextureIffRequested ==
  /\ panel_ => (texture_.exists <=> lastReq # <<0, 0>>)
  /\ askedNonZero => (panel_ /\ texture_.exists)
  /\ ~panel_ => (~texture_.exists /\ lastReq = <<0, 0>>)
  /\ (SetGeometryDone /\ panel_) => texture_.exists

\* C14 happens: a valid panel whose only request was setGeometry with a 0x0
\* size holds a 1x1 texture.
C14_Witness ==
  /\ panel_
  /\ sysEvent = "setGeometry:created"
  /\ panelDims = <<0, 0>>
  /\ ~askedNonZero
  /\ texture_.exists
  /\ TextureSize = <<1, 1>>

\* the textures a panel can hold when updateTextureSize is called
SomeTextures ==
  {NoTexture} \cup {[exists |-> TRUE, width |-> w, height |-> h] :
                      w \in 1..MaxDim, h \in 1..MaxDim}

\* C15: a texture that exists is at least 1 wide and 1 high; whatever texture a
\* valid panel holds, updateTextureSize(w, h) with w, h >= 0 leaves a texture
\* of exactly max(1,w) x max(1,h); and after setGeometry(w, h, ...) on a valid
\* panel the texture is max(1,w) x max(1,h).
C15_TextureAtLeastOne ==
  /\ texture_.exists => (texture_.width >= 1 /\ texture_.height >= 1)
  /\ \A t \in SomeTextures, w \in SysWidths, h \in SysHeights :
       updateTextureSize(TRUE, t, 1, w, h).texture =
         [exists |-> TRUE, width |-> Max(1, w), height |-> Max(1, h)]
  /\ (SetGeometryDone /\ panel_)
       => TextureSize = <<Max(1, panelDims[1]), Max(1, panelDims[2])>>

\* C15 happens: setGeometry asked for a height of 0 on a panel that held a
\* texture, and the texture that replaced it is 1 high.
C15_Witness ==
  /\ sysEvent = "setGeometry:replaced"
  /\ panel_
  /\ panelDims = <<2, 0>>
  /\ TextureSize = <<2, 1>>

\* C17: while the manager has no panel or no render panel, no step is a
\* setGeometry that reaches the panel, and while it has no panel no step is a
\* setVisible that reaches it; a setGeometry or setVisible that returns at its
\* first test changes nothing: no texture is created or removed, the panel's
\* position, dimensions and visibility, the handles and the render panel held
\* stay as they were.
C17_SkippedCallsChangeNothing ==
  [][/\ (~overlay_panel_ \/ render_panel_ = 0)
          => sysEvent' \notin {"setGeometry:created", "setGeometry:replaced",
                               "setGeometry:kept"}
     /\ ~overlay_panel_ => sysEvent' # "setVisible:done"
     /\ sysEvent' = "setGeometry:skipped"
          => (~overlay_panel_ \/ render_panel_ = 0)
     /\ sysEvent' = "setVisible:skipped" => ~overlay_panel_
     /\ sysEvent' \in {"setGeometry:skipped", "setVisible:skipped"}
          => UNCHANGED <<texVars, placeVars, visible, widgetSize, mgrVars,
                        handleVars, renderVars, histVars>>]_vars

\* C17 happens: setGeometry was called on a manager that holds a valid panel
\* but no render panel, and returned at its first test.
C17_Witness ==
  /\ sysEvent = "setGeometry:skipped"
  /\ overlay_panel_ /\ panel_
  /\ render_panel_ = 0
  /\ ~texture_.exists
  /\ panelPos = <<0, 0>> /\ panelDims = <<0, 0>>

\* for every geometry and every render panel size the position that setGeometry
\* computes inline is calculateAbsolutePosition of that geometry and size, and
\* its offsets are calculateClampedOffsets
InlinePlacementAgrees ==
  \A g \in Geometries, ps \in PanelSizes :
    /\ setGeometryPosition(g.width, g.height, g.offset_x, g.offset_y,
                           g.anchor, ps) = calculateAbsolutePosition(g, ps)
    /\ setGeometryOffsets(g.width, g.height, g.offset_x, g.offset_y, ps)
         = calculateClampedOffsets(g, ps)

\* C18: the inline placement of setGeometry and the functions of
\* OverlayGeometryManager agree on every geometry and render panel size; and
\* when setGeometry(width, height, offsets, anchor) has just placed a valid
\* panel, the panel is at calculateAbsolutePosition of the requested geometry
\* (the requested width and height, not the texture's) in the render panel
\* size of the call.
C18_PlacementAsGeometryManager ==
  /\ InlinePlacementAgrees
  /\ geomCall # NoCall
       => /\ SetGeometryDone /\ panel_
          /\ panelPos = calculateAbsolutePosition(geomCall, viewSize)

\* C18 happens: setGeometry has just placed a 1x2 overlay, asked for at the
\* top-right with an x offset of 1, in a 3x3 render panel, after an earlier
\* setGeometry had replaced the texture.
C18_Witness ==
  /\ sysEvent = "setGeometry:kept"
  /\ panel_
  /\ geomCall = [width |-> 1, height |-> 2, offset_x |-> 1, offset_y |-> 0,
                 anchor |-> "TopRight"]
  /\ viewSize = <<3, 3>>
  /\ texCreated = 2
  /\ panelPos = <<1, 0>>

\* C19 as stated: when setGeometry(w, h, ...) has just run on a valid panel
\* with a render panel bound, the texture's size and the panel's dimensions
\* both equal (w, h), and so equal each other.
C19_Original ==
  geomCall # NoCall
    => /\ TextureSize = <<geomCall.width, geomCall.height>>
       /\ panelDims = <<geomCall.width, geomCall.height>>
       /\ TextureSize = panelDims

\* C19 amended: when setGeometry(w, h, ...) has just run on a valid panel with
\* a render panel bound, the panel dimensions are (w, h) as requested and the
\* texture is max(1,w) x max(1,h); the two agree exactly when neither w nor h
\* is 0, and differ on each axis where 0 was requested.
C19_SetGeometrySizes ==
  geomCall # NoCall
    => /\ panelDims = <<geomCall.width, geomCall.height>>
       /\ TextureSize = <<Max(1, geomCall.width), Max(1, geomCall.height)>>
       /\ (TextureSize = panelDims)
            <=> (geomCall.width # 0 /\ geomCall.height # 0)

\* C19 happens: setGeometry has just asked for a width of 0 and a height of 2;
\* the panel is 0 wide and the texture 1 wide.
C19_Witness ==
  /\ geomCall # NoCall
  /\ geomCall.width = 0 /\ geomCall.height = 2
  /\ panelDims = <<0, 2>>
  /\ TextureSize = <<1, 2>>

\* C20: no render() creates, removes or resizes a texture, at any of its steps
\* and whatever its exit: the texture, the material's texture-unit states and
\* the counts of createManual and remove calls are as they were.  A step that
\* changes the texture is a setGeometry.
RenderEvents ==
  {"render:no_resource", "render:no_texture", "render:invalid_lock",
   "render:running", "render:null_image", "render:painted"}

C20_RenderKeepsTexture ==
  [][/\ sysEvent' \in RenderEvents
          => UNCHANGED <<texture_, unitStates, texCreated, texRemoved>>
     /\ (texture_' # texture_ \/ texCreated' # texCreated
           \/ texRemoved' # texRemoved)
          => sysEvent' \in {"setGeometry:created", "setGeometry:replaced"}]_vars

\* C20 happens: a render() has painted on a texture that setGeometry had put in
\* the place of an earlier one, and the texture is the one setGeometry left.
C20_Witness ==
  /\ sysEvent = "render:painted"
  /\ texture_.exists
  /\ texCreated = 2 /\ texRemoved = 1
  /\ unitStates = 1
  /\ TextureSize = lastReq
  /\ widgetSize = TextureSize

\* textures alive and texture-unit states of the pass after the calls of a
\* sequence, from `alive` textures and `units` unit states before it
RECURSIVE AliveAfter(_, _)
AliveAfter(calls, alive) ==
  IF calls = <<>> THEN alive
  ELSE AliveAfter(Tail(calls),
                  CASE Head(calls) = "remove" -> alive - 1
                    [] Head(calls) = "createManual" -> alive + 1
                    [] OTHER -> alive)

RECURSIVE UnitsAfter(_, _)
UnitsAfter(calls, units) ==
  IF calls = <<>> THEN units
  ELSE UnitsAfter(Tail(calls),
                  CASE Head(calls) = "removeAllTextureUnitStates" -> 0
                    [] Head(calls) = "createTextureUnitState" -> units + 1
                    [] OTHER -> units)

CallCount(calls, c) == Cardinality({i \in 1..Len(calls) : calls[i] = c})

\* whatever texture a valid panel holds and whatever size is asked for, after
\* every call that updateTextureSize makes at most one texture is alive and
\* the pass has at most one texture-unit state; a replacement removes the old
\* texture and then its unit state, and only then creates and binds the new
\* one; and the calls are those that updateTextureSize's result counts
ResizeCallsInOrder ==
  \A t \in SomeTextures, w \in SysWidths, h \in SysHeights :
    LET calls == updateTextureSizeCalls(TRUE, t, w, h)
        r == updateTextureSize(TRUE, t, IF t.exists THEN 1 ELSE 0, w, h)
        alive == IF t.exists THEN 1 ELSE 0
    IN  /\ \A n \in 0..Len(calls) :
             /\ AliveAfter(SubSeq(calls, 1, n), alive) \in {0, 1}
             /\ UnitsAfter(SubSeq(calls, 1, n), alive) \in {0, 1}
        /\ \A i \in 1..Len(calls), j \in 1..Len(calls) :
             (calls[i] \in {"remove", "removeAllTextureUnitStates"}
              /\ calls[j] \in {"createManual", "createTextureUnitState"})
               => i < j
        /\ calls \in {<<>>, <<"createManual", "createTextureUnitState">>,
                       <<"remove", "removeAllTextureUnitStates", "createManual",
                         "createTextureUnitState">>}
        /\ Len(calls) = 4 <=> (t.exists /\ r.created = 1)
        /\ CallCount(calls, "createManual") = r.created
        /\ CallCount(calls, "remove") = r.removed
        /\ UnitsAfter(calls, alive) = r.unitStates
        /\ AliveAfter(calls, alive) = (IF r.texture.exists THEN 1 ELSE 0)
    /\ updateTextureSizeCalls(FALSE, t, w, h) = <<>>

\* C21: in every state the textures the panel created and has not removed are
\* one if it holds a texture and none if it does not, and the material's pass
\* has one texture-unit state if a texture exists and none if not; and when
\* updateTextureSize replaces a texture it removes the old one and detaches
\* its unit state before it creates and binds the new one, so that at no
\* point of the call two textures are alive or two unit states attached.
C21_OneTextureOneUnitState ==
  /\ texCreated - texRemoved = (IF texture_.exists THEN 1 ELSE 0)
  /\ unitStates = (IF texture_.exists THEN 1 ELSE 0)
  /\ texture_.exists => (panel_ /\ material_)
  /\ ResizeCallsInOrder
  /\ sysEvent = "setGeometry:replaced"
       => (texRemoved >= 1 /\ texCreated = texRemoved + 1)

\* C21 happens: setGeometry has just replaced a texture by one of another
\* size; two textures were created, one removed, one unit state is attached.
C21_Witness ==
  /\ sysEvent = "setGeometry:replaced"
  /\ texture_.exists
  /\ texCreated = 2 /\ texRemoved = 1
  /\ unitStates = 1
  /\ TextureSize = <<1, 2>>

(***************************************************************************)
(* Properties of the teardown (SpecTeardown)                               *)
(***************************************************************************)
ReleaseCount(x) == Cardinality({i \in 1..Len(released) : released[i] = x})
ReleaseRank(x) ==
  CASE x = "element" -> 1 [] x = "overlay" -> 2 [] x = "material" -> 3
    [] x = "texture" -> 4
ReleasedInOrder ==
  \A i \in 1..Len(released), j \in 1..Len(released) :
    i < j => ReleaseRank(released[i]) < ReleaseRank(released[j])
Destroyed == pc = "destroyed"

\* C16 as stated: once the OverlayManager and its panel are destroyed, everything
\* the panel created has been released exactly once: the element, the overlay
\* and the material of a panel constructed with Ogre's OverlayManager, and
\* every texture.
C16_Original ==
  (Destroyed /\ overlay_panel_)
    => /\ ctorMgr = "available"
            => /\ ReleaseCount("element") = 1
               /\ ReleaseCount("overlay") = 1
               /\ ReleaseCount("material") = 1
       /\ texRemoved = texCreated
       /\ ReleasedInOrder

\* C16 amended: nothing is released before the destruction except textures
\* that were replaced.  The destruction releases the material of a panel that
\* has one and the texture if there is one, each exactly once, so that every
\* texture ever created has been removed exactly once; it releases the element
\* and then the overlay exactly once if Ogre's OverlayManager still exists
\* when the destructor runs, and neither of them if it does not; the order is
\* element, overlay, material, texture; a panel constructed without Ogre's
\* OverlayManager, and a manager that never made a panel, release nothing.
C16_TeardownReleases ==
  /\ ~Destroyed => released = <<>>
  /\ Destroyed
       => /\ \A x \in {"element", "overlay", "material", "texture"} :
               ReleaseCount(x) <= 1
          /\ ReleasedInOrder
          /\ texRemoved = texCreated
          /\ ReleaseCount("texture") = (IF texture_.exists THEN 1 ELSE 0)
          /\ ReleaseCount("material") = (IF ctorMgr = "available" THEN 1 ELSE 0)
          /\ ReleaseCount("element") = ReleaseCount("overlay")
          /\ ReleaseCount("overlay") =
               (IF ctorMgr = "available" /\ sysEvent = "destroy:done"
                  THEN 1 ELSE 0)
          /\ sysEvent = "destroy:overlay_kept" => ctorMgr = "available"
          /\ ctorMgr \in {"none", "unavailable"} => released = <<>>
          /\ texLocked = 0

\* C16 happens: a panel whose texture had been replaced once was destroyed
\* while Ogre's OverlayManager existed, and released its element, overlay,
\* material and texture in that order.
C16_Witness ==
  /\ Destroyed
  /\ sysEvent = "destroy:done"
  /\ released = <<"element", "overlay", "material", "texture">>
  /\ texCreated = 2
  /\ texRemoved = 2

(***************************************************************************)
(* Properties of the generated names (SpecNames)                           *)
(***************************************************************************)
Named == {m \in Managers : instName[m] # NoName}

\* C11: however the attach() calls of several OverlayManager objects
\* interleave, the names of their panels are pairwise distinct; the shared
\* counter has advanced once for each panel made or being made, whatever the
\* number of attach() calls; the values it handed out are strictly increasing
\* and each name is the fixed prefix followed by one of them.
C11_DistinctNames ==
  /\ \A m1 \in Named, m2 \in Named : m1 # m2 => instName[m1] # instName[m2]
  /\ overlay_count = Len(issued)
  /\ overlay_count = Cardinality(Named \cup {m \in Managers : instPc[m] = "make"})
  /\ \A i \in 1..Len(issued), j \in 1..Len(issued) :
       i < j => issued[i] < issued[j]
  /\ \A m \in Named : \E i \in 1..Len(issued) : instName[m] = panelName(issued[i])
  /\ \A m \in Managers :
       instPc[m] = "make" => \E i \in 1..Len(issued) : instCount[m] = issued[i]

\* C11 happens: every manager holds a panel, one of them was attached again,
\* and the attach() calls interleaved so that the second manager's panel took
\* the first counter value.
C11_Witness ==
  /\ Named = Managers
  /\ \A m \in Managers : instPc[m] = "idle"
  /\ instAttaches[1] = 2
  /\ instName[2] = panelName(0)
  /\ instName[1] = panelName(NumManagers - 1)
  /\ overlay_count = NumManagers

====
